---- MODULE Spec2Model ----
(***************************************************************************)
(* A model of the refinery library (yotto3s/refinery): the size-predicated *)
(* container wrapper RefinedContainer with its mutation protocol, static   *)
(* indexing and freeze/guard snapshot (refined_container.hpp), the checked *)
(* construction of Refined values (refined_type.hpp) and the interval      *)
(* arithmetic on Refined integers (interval.hpp).                          *)
(*                                                                         *)
(* Compile-time facts of the C++ program (the size predicate of a wrapper, *)
(* the interval of an index, the Tag of a guard) are carried in the model  *)
(* as fields of the value they type; a requires-clause is the guard of the *)
(* action that models the constrained member.                              *)
(***************************************************************************)
EXTENDS Integers, Sequences, FiniteSets, TLC

VARIABLES h, last, idx, snaps, gidx, arith, readers

vars == <<h, last, idx, snaps, gidx, arith, readers>>

(***************************************************************************)
(* Bounds of the model and the scaled-down numeric limits.                 *)
(***************************************************************************)

\* The largest length a std::vector can reach (vector::max_size()).
VecMax == 2

\* std::numeric_limits<std::size_t>::max(), scaled: max_size() of a vector
\* is at most PTRDIFF_MAX, that is (SIZE_MAX - 1) / 2.
SizeMax == 2 * VecMax + 1

\* The element values stored in the containers.
Elem == {"a", "b"}

\* The wrapper objects a run keeps in scope: the one it mutates and the one
\* it appends from.
Handles == {"target", "source"}

\* The call sites of freeze() in the program text.
Sites == {"s1", "s2"}

\* The freeze() calls a run makes.
Calls == {"A", "B"}

Min(a, b) == IF a < b THEN a ELSE b

Max(a, b) == IF a > b THEN a ELSE b

\* All sequences over S of length at most n.
SeqsUpTo(S, n) == UNION {[1..k -> S] : k \in 0..n}

\* The vectors a run passes to the constructor of the target and of the
\* source, and the arrays it appends.
TargetInputs == SeqsUpTo({"a"}, VecMax)

SourceInputs == SeqsUpTo({"b"}, VecMax)

(***************************************************************************)
(* SizeInterval<Lo, Hi> and size_interval_shift<Pred, Delta>.              *)
(***************************************************************************)

\* SizeInterval<Lo, Hi>::operator()(s)
SizeInterval(lo, hi, s) == s >= lo /\ s <= hi

\* static_assert(Lo <= Hi) of SizeInterval: the declarable size predicates.
SizePreds == {p \in [lo : 0..SizeMax, hi : 0..SizeMax] : p.lo <= p.hi}

\* shift_bound without the clamps: size_t arithmetic that wraps around.
shift_bound_wrap(b, Delta) == (b + Delta) % (SizeMax + 1)

\* The new_lo / new_hi lambda of size_interval_shift, on one bound.
shift_bound(b, Delta) ==
    IF Delta >= 0
    THEN (IF b > SizeMax - Delta THEN SizeMax ELSE b + Delta)
    ELSE (IF b < -Delta THEN 0 ELSE b - (-Delta))

\* size_interval_shift<Pred, Delta>()
size_interval_shift(p, Delta) ==
    [lo |-> shift_bound(p.lo, Delta), hi |-> shift_bound(p.hi, Delta)]

\* append_bound without the clamp: a size_t sum that wraps around.
append_bound_wrap(t, s) == (t + s) % (SizeMax + 1)

\* The new_lo / new_hi of append(RefinedContainer&&), on one bound.
append_bound(t, s) == IF t > SizeMax - s THEN SizeMax ELSE t + s

\* append_pred shifting both bounds by the source's lower bound only.
append_pred_lower(t, s) ==
    [lo |-> append_bound(t.lo, s.lo), hi |-> append_bound(t.hi, s.lo)]

\* The result predicate of append(RefinedContainer&&).
append_pred(t, s) ==
    [lo |-> append_bound(t.lo, s.lo), hi |-> append_bound(t.hi, s.hi)]

(***************************************************************************)
(* Wrapper objects.  st is "none" (no object bound to the slot) or "live"  *)
(* (an object that owns its container).  lo, hi are the object's           *)
(* SizePredicate.  prov is history, not program state: "checked" when the  *)
(* object descends from checked constructions through operations on        *)
(* distinct objects, "aliased" when an append whose target and source are  *)
(* the same object is in its past.  The handle an operation consumed is    *)
(* described by the record of that operation in last.                      *)
(***************************************************************************)

NoHandle == [st |-> "none", lo |-> 0, hi |-> 0, c |-> <<>>, prov |-> "checked"]

Wrapper(p, c, prov) ==
    [st |-> "live", lo |-> p.lo, hi |-> p.hi, c |-> c, prov |-> prov]

PredOf(w) == [lo |-> w.lo, hi |-> w.hi]

NoLast == [op |-> "none"]

NoIdx == [st |-> "none", lo |-> 0, hi |-> 0, v |-> 0]

NoGidx == [st |-> "none", tag |-> "s1", index |-> 0, call |-> "A"]

NoSnap == [st |-> "none", tag |-> "s1", size |-> 0, c |-> <<>>]

NoArith == [pc |-> "idle"]

\* The threads that read a frozen container, and a thread between calls.
Readers == {"r1", "r2"}

NoReader == [pc |-> "idle"]

\* An exception leaves the scope that holds the wrapper objects: stack
\* unwinding destroys them all.
Unwound == [x \in Handles |-> NoHandle]

\* h with the objects in used consumed and the new wrapper w bound to r
\* (auto rc = std::move(rc).push_back(x) binds it in place of its operand).
Rebind(used, r, w) ==
    [x \in Handles |->
        IF x = r THEN w
        ELSE IF x \in used THEN NoHandle
        ELSE h[x]]

\* The record of a size-changing operation: the consumed target's predicate
\* and length, the source's (or the delta), the slot of the result.
MutRecord(op, err, t, p2, n2) ==
    [op |-> op, err |-> err, res |-> t, lo |-> h[t].lo, hi |-> h[t].hi,
     n |-> Len(h[t].c), lo2 |-> p2.lo, hi2 |-> p2.hi, n2 |-> n2]

Delta(d) == [lo |-> d, hi |-> d]

(***************************************************************************)
(* RefinedContainer: checked construction and the mutation protocol.       *)
(***************************************************************************)

\* RefinedContainer(Container, runtime_check_t): throws refinement_error
\* when the size predicate rejects container.size().
ConstructChecked(r, p, c) ==
    /\ h[r].st # "live"
    /\ IF SizeInterval(p.lo, p.hi, Len(c))
       THEN /\ h' = [h EXCEPT ![r] = Wrapper(p, c, "checked")]
            /\ last' = [op |-> "construct", err |-> "none", res |-> r,
                        lo |-> p.lo, hi |-> p.hi, arg |-> c]
       ELSE /\ h' = Unwound
            /\ last' = [op |-> "construct", err |-> "refinement_error",
                        res |-> r, lo |-> p.lo, hi |-> p.hi, arg |-> c]
    /\ UNCHANGED <<idx, snaps, gidx, arith, readers>>

\* The body shared by push_back and emplace_back: one element appended
\* (vector throws length_error at max_size()), then the wrapper with the
\* predicate shifted by +1, built with assume_valid.
PushOne(op, t, x) ==
    /\ h[t].st = "live"
    /\ IF Len(h[t].c) < VecMax
       THEN /\ h' = Rebind({t}, t,
                      Wrapper(size_interval_shift(PredOf(h[t]), 1),
                              Append(h[t].c, x), h[t].prov))
            /\ last' = MutRecord(op, "none", t, Delta(1), 1)
       ELSE /\ h' = Unwound
            /\ last' = MutRecord(op, "length_error", t, Delta(1), 1)
    /\ UNCHANGED <<idx, snaps, gidx, arith, readers>>

\* push_back(V&&) &&
push_back(t, x) == PushOne("push_back", t, x)

\* emplace_back(Args&&...) &&
emplace_back(t, x) == PushOne("emplace_back", t, x)

\* The requires-clause of pop_back, front and back: lo >= 1.
nonempty_provable(p) == p.lo >= 1

\* What container_.pop_back() leaves: the last element removed.  On an
\* empty vector it is undefined behaviour; the model keeps the vector empty
\* and marks the event.
PoppedSeq(c) == IF Len(c) = 0 THEN <<>> ELSE SubSeq(c, 1, Len(c) - 1)

\* pop_back() &&: requires lo >= 1; predicate shifted by -1.
pop_back(t) ==
    /\ h[t].st = "live"
    /\ nonempty_provable(PredOf(h[t]))
    /\ h' = Rebind({t}, t,
              Wrapper(size_interval_shift(PredOf(h[t]), -1),
                      PoppedSeq(h[t].c), h[t].prov))
    /\ last' = MutRecord("pop_back",
                         IF Len(h[t].c) = 0 THEN "pop_on_empty" ELSE "none",
                         t, Delta(-1), 0)
    /\ UNCHANGED <<idx, snaps, gidx, arith, readers>>

\* append(const std::array<V, N>&) &&: N push_backs, predicate shifted by
\* static_cast<ptrdiff_t>(N).
append_array(t, src) ==
    /\ h[t].st = "live"
    /\ IF Len(h[t].c) + Len(src) <= VecMax
       THEN /\ h' = Rebind({t}, t,
                      Wrapper(size_interval_shift(PredOf(h[t]), Len(src)),
                              h[t].c \o src, h[t].prov))
            /\ last' = MutRecord("append_array", "none", t,
                                 Delta(Len(src)), Len(src))
       ELSE /\ h' = Unwound
            /\ last' = MutRecord("append_array", "length_error", t,
                                 Delta(Len(src)), Len(src))
    /\ UNCHANGED <<idx, snaps, gidx, arith, readers>>

\* The container the loop of append(RefinedContainer&&) fills: release()
\* moves the source's vector out first, which empties container_ as well
\* when the source is *this.
AppendedSeq(t, s) == (IF s = t THEN <<>> ELSE h[t].c) \o h[s].c

AppendProv(t, s) ==
    IF s = t \/ h[t].prov = "aliased" \/ h[s].prov = "aliased"
    THEN "aliased" ELSE "checked"

\* append(RefinedContainer<C2, SizePred2>&&) &&
append_rc(t, s) ==
    /\ h[t].st = "live"
    /\ h[s].st = "live"
    /\ IF Len(AppendedSeq(t, s)) <= VecMax
       THEN /\ h' = Rebind({t, s}, t,
                      Wrapper(append_pred(PredOf(h[t]), PredOf(h[s])),
                              AppendedSeq(t, s), AppendProv(t, s)))
            /\ last' = MutRecord("append_rc", "none", t,
                                 PredOf(h[s]), Len(h[s].c))
       ELSE /\ h' = Unwound
            /\ last' = MutRecord("append_rc", "length_error", t,
                                 PredOf(h[s]), Len(h[s].c))
    /\ UNCHANGED <<idx, snaps, gidx, arith, readers>>

(***************************************************************************)
(* Refined<std::size_t, Interval<Lo, Hi>{}> index values and the static    *)
(* indexing operator of RefinedContainer.                                  *)
(***************************************************************************)

\* Interval with the upper bound excluded.
Interval_open(lo, hi, v) == v >= lo /\ v < hi

\* Interval<Lo, Hi>::operator()(v)
Interval(lo, hi, v) == v >= lo /\ v <= hi

\* The Interval<Lo, Hi> types over std::size_t a program can name (Interval
\* has no Lo <= Hi assertion).
IndexPreds == [lo : 0..SizeMax, hi : 0..SizeMax]

\* Refined(T value, runtime_check_t) for an index: throws refinement_error
\* when the predicate rejects the value.
ConstructIndex(ip, v) ==
    /\ IF Interval(ip.lo, ip.hi, v)
       THEN /\ idx' = [st |-> "live", lo |-> ip.lo, hi |-> ip.hi, v |-> v]
            /\ h' = h
            /\ last' = [op |-> "refine", err |-> "none",
                        lo |-> ip.lo, hi |-> ip.hi, arg |-> v]
       ELSE /\ idx' = NoIdx
            /\ h' = Unwound
            /\ last' = [op |-> "refine", err |-> "refinement_error",
                        lo |-> ip.lo, hi |-> ip.hi, arg |-> v]
    /\ UNCHANGED <<snaps, gidx, arith, readers>>

\* The requires-clause with the comparison weakened to <=.
static_index_ok_le(ip, sp) == ip.hi <= sp.lo

\* The requires-clause of operator[](Refined<std::size_t, IndexPred>):
\* IndexPred::hi < size_interval_traits<SizePredicate>::lo.
static_index_ok(ip, sp) == ip.hi < sp.lo

\* operator[](Refined<std::size_t, IndexPred> idx) const: container_[idx.get()]
\* with no runtime check; a position past the end is undefined behaviour,
\* recorded as the event "out_of_bounds".
StaticIndex(t) ==
    /\ h[t].st = "live"
    /\ idx.st = "live"
    /\ static_index_ok(PredOf(idx), PredOf(h[t]))
    /\ last' = [op |-> "static_index",
                err |-> IF idx.v < Len(h[t].c) THEN "none"
                        ELSE "out_of_bounds",
                res |-> t, pos |-> idx.v, n |-> Len(h[t].c)]
    /\ UNCHANGED <<h, idx, snaps, gidx, arith, readers>>

\* A direct call of size_interval_shift<Pred, Delta>() (consteval).
ShiftCall(p, d) ==
    /\ last' = [op |-> "shift", err |-> "none", lo |-> p.lo, hi |-> p.hi,
                d |-> d, out |-> size_interval_shift(p, d)]
    /\ UNCHANGED <<h, idx, snaps, gidx, arith, readers>>

Init ==
    /\ h = [x \in Handles |-> NoHandle]
    /\ last = NoLast
    /\ idx = NoIdx
    /\ snaps = [k \in Calls |-> NoSnap]
    /\ gidx = NoGidx
    /\ arith = NoArith
    /\ readers = [r \in Readers |-> NoReader]

\* The source object is built right before the append that consumes it: it
\* is independent of the target until then, so every other order of the same
\* operations reaches the same wrappers.
SourceIdle == h["source"].st = "none"

Next ==
    \/ \E p \in SizePreds, c \in TargetInputs :
           SourceIdle /\ ConstructChecked("target", p, c)
    \/ \E p \in SizePreds, c \in SourceInputs :
           h["target"].st = "live" /\ ConstructChecked("source", p, c)
    \/ \E x \in Elem : SourceIdle /\ push_back("target", x)
    \/ \E x \in Elem : SourceIdle /\ emplace_back("target", x)
    \/ SourceIdle /\ pop_back("target")
    \/ \E src \in SourceInputs : SourceIdle /\ append_array("target", src)
    \/ \E s \in Handles : append_rc("target", s)
    \/ \E p \in SizePreds, d \in -VecMax..VecMax :
           h = Unwound /\ ShiftCall(p, d)

Spec == Init /\ [][Next]_vars

(***************************************************************************)
(* Properties of the mutation protocol (specification Spec).               *)
(***************************************************************************)

MutOps == {"push_back", "emplace_back", "pop_back", "append_array",
           "append_rc"}

\* A bound moved by d and clamped to the size domain [0, SizeMax].
SizeClamp(x) == Max(0, Min(SizeMax, x))

LastDelta ==
    CASE last.op \in {"push_back", "emplace_back"} -> 1
      [] last.op = "pop_back" -> -1
      [] last.op = "append_array" -> last.n2
      [] OTHER -> 0

\* C9: push_back and emplace_back return a wrapper typed [lo+1, hi+1],
\* pop_back [lo-1, hi-1], append of an N-element array [lo+N, hi+N], and
\* size_interval_shift by d gives [lo+d, hi+d], each bound clamped to
\* [0, SizeMax] and never wrapped.
C9_ExactShift ==
    /\ (last.op \in MutOps \ {"append_rc"} /\ last.err = "none")
          => /\ h[last.res].st = "live"
             /\ h[last.res].lo = SizeClamp(last.lo + LastDelta)
             /\ h[last.res].hi = SizeClamp(last.hi + LastDelta)
    /\ last.op = "shift"
          => /\ last.out.lo = SizeClamp(last.lo + last.d)
             /\ last.out.hi = SizeClamp(last.hi + last.d)

\* A push_back whose upper bound saturated at the size domain's maximum.
C9_Witness ==
    /\ last.op = "push_back" /\ last.err = "none"
    /\ last.hi = SizeMax /\ h[last.res].hi = SizeMax
    /\ h[last.res].lo = last.lo + 1

IndexNext ==
    \/ \E p \in SizePreds, c \in TargetInputs :
           ConstructChecked("target", p, c)
    \/ \E x \in Elem : push_back("target", x)
    \/ pop_back("target")
    \/ \E ip \in IndexPreds, v \in 0..SizeMax : ConstructIndex(ip, v)
    \/ StaticIndex("target")

IndexSpec == Init /\ [][IndexNext]_vars

\* C5: checked construction evaluates the predicate on the supplied value
\* (for a container, on its length): when it holds the new wrapper holds
\* exactly that value under that predicate, and when it does not a
\* refinement_error is signalled and no wrapper exists.
C5_CheckedConstruction ==
    /\ last.op = "construct"
          => IF last.lo <= Len(last.arg) /\ Len(last.arg) <= last.hi
             THEN /\ last.err = "none"
                  /\ h[last.res].st = "live"
                  /\ h[last.res].c = last.arg
                  /\ h[last.res].lo = last.lo /\ h[last.res].hi = last.hi
             ELSE /\ last.err = "refinement_error"
                  /\ h[last.res].st = "none"
    /\ last.op = "refine"
          => IF last.lo <= last.arg /\ last.arg <= last.hi
             THEN /\ last.err = "none"
                  /\ idx = [st |-> "live", lo |-> last.lo, hi |-> last.hi,
                            v |-> last.arg]
             ELSE /\ last.err = "refinement_error"
                  /\ idx.st = "none"

\* A checked construction that threw on a value just above the upper bound.
C5_Witness ==
    /\ last.op = "refine" /\ last.err = "refinement_error"
    /\ last.lo <= last.hi /\ last.arg = last.hi + 1

FreezePreds == {[lo |-> 0, hi |-> SizeMax], [lo |-> 1, hi |-> SizeMax]}

\* The next execution of freeze, in program order.
NextCall == IF snaps["A"].st = "none" THEN "A" ELSE "B"

freeze(t, site) ==
    /\ h[t].st = "live"
    /\ snaps[NextCall].st = "none"
    /\ snaps' = [snaps EXCEPT ![NextCall] =
                    [st |-> "live", tag |-> site, size |-> Len(h[t].c),
                     c |-> h[t].c]]
    /\ h' = [h EXCEPT ![t] = NoHandle]
    /\ last' = [op |-> "freeze", err |-> "none", call |-> NextCall,
                tag |-> site, n |-> Len(h[t].c)]
    /\ UNCHANGED <<idx, gidx, arith, readers>>

check_ok_le(i, size) == i <= size

check_ok(i, size) == i < size

check(k, i) ==
    /\ snaps[k].st = "live"
    /\ gidx' = IF check_ok(i, snaps[k].size)
               THEN [st |-> "some", tag |-> snaps[k].tag, index |-> i,
                     call |-> k]
               ELSE NoGidx
    /\ last' = [op |-> "check", err |-> "none", call |-> k, arg |-> i]
    /\ UNCHANGED <<h, idx, snaps, arith, readers>>

\* The parameter type GuardedIndex<Tag> must be the frozen container's own.
brand_matches(k) == gidx.st = "some" /\ gidx.tag = snaps[k].tag

\* container_[idx.get()] is unchecked: past the end it is undefined, and
\* whatever element value the read produces is recorded.
frozen_index(k) ==
    /\ snaps[k].st = "live"
    /\ brand_matches(k)
    /\ \E val \in Elem :
          /\ gidx.index < Len(snaps[k].c) => val = snaps[k].c[gidx.index + 1]
          /\ last' = [op |-> "frozen_index",
                      err |-> IF gidx.index < Len(snaps[k].c)
                              THEN "none" ELSE "out_of_bounds",
                      call |-> k, from |-> gidx.call, pos |-> gidx.index,
                      n |-> Len(snaps[k].c), val |-> val]
    /\ UNCHANGED <<h, idx, snaps, gidx, arith, readers>>

FreezeNext ==
    \/ \E p \in FreezePreds, c \in TargetInputs :
           ConstructChecked("target", p, c)
    \/ \E x \in Elem : push_back("target", x)
    \/ \E site \in Sites : freeze("target", site)
    \/ \E k \in Calls, i \in 0..SizeMax : check(k, i)
    \/ \E k \in Calls : frozen_index(k)

FreezeSpec == Init /\ [][FreezeNext]_vars

\* C3: every GuardedIndex carrying a brand holds an integer below the length
\* of every FrozenContainer carrying that brand, and every access a
\* FrozenContainer accepts is in bounds.
C3_GuardedIndexInBounds ==
    /\ \A k \in Calls :
          (snaps[k].st = "live" /\ brand_matches(k))
              => gidx.index < Len(snaps[k].c)
    /\ last.op = "frozen_index" => last.err = "none"

\* C4: two executions of freeze mint different brands, and an index from
\* the guard of one is never accepted by the frozen container of the other.
C4_BrandIsolation ==
    /\ (snaps["A"].st = "live" /\ snaps["B"].st = "live")
          => snaps["A"].tag # snaps["B"].tag
    /\ \A k \in Calls :
          (snaps[k].st = "live" /\ gidx.st = "some" /\ gidx.call # k)
              => ~ ENABLED frozen_index(k)
    /\ last.op = "frozen_index" => last.from = last.call

\* C8: check(i) on the guard of a container frozen at length n returns an
\* index holding i under the guard's brand when 0 <= i < n and nothing when
\* i >= n, where n is the length the container had when freeze was called.
C8_Check ==
    /\ last.op = "freeze"
          => /\ snaps[last.call].size = last.n
             /\ Len(snaps[last.call].c) = last.n
    /\ last.op = "check"
          => IF last.arg < Len(snaps[last.call].c)
             THEN gidx = [st |-> "some", tag |-> snaps[last.call].tag,
                          index |-> last.arg, call |-> last.call]
             ELSE gidx.st = "none"

\* check(n) was refused by the guard of a container that grew after its
\* construction and was frozen at length n.
C8_Witness ==
    /\ last.op = "check" /\ gidx.st = "none"
    /\ last.arg = snaps[last.call].size /\ last.arg >= 1
    /\ "b" \in {snaps[last.call].c[i] : i \in 1..Len(snaps[last.call].c)}

(***************************************************************************)
(* Interval arithmetic on integers: Refined<T, Interval<Lo, Hi>> operands, *)
(* the bounds inferred at compile time and the value computed at run time. *)
(*                                                                         *)
(* T is the value type.  The bounds are computed in decltype(P1.lo), the   *)
(* type of the Interval's template arguments, which is T in the library's  *)
(* aliases (IntervalRefined<long, 1L, ...>) and is int when a wider T is   *)
(* given plain literals (Refined<long, Interval<0, 100>{}>).               *)
(***************************************************************************)

IntHalf == 3

IntTypes == {"int", "unsigned", "long"}

\* std::numeric_limits<T>::min() and max(), scaled down.
TMin(t) ==
    CASE t = "int" -> -IntHalf
      [] t = "unsigned" -> 0
      [] t = "long" -> -(2 * IntHalf)

TMax(t) ==
    CASE t = "int" -> IntHalf - 1
      [] t = "unsigned" -> 2 * IntHalf - 1
      [] t = "long" -> 2 * IntHalf - 1

TRange(t) == TMin(t)..TMax(t)

Modulus(t) == TMax(t) - TMin(t) + 1

\* Conversion of a mathematical integer to type t (two's complement).
Wrap(t, x) == ((x - TMin(t)) % Modulus(t)) + TMin(t)

Abs(x) == IF x < 0 THEN -x ELSE x

\* Integer division of C++: truncation toward zero.
TDiv(a, b) ==
    IF (a >= 0) = (b > 0) THEN Abs(a) \div Abs(b)
                          ELSE -(Abs(a) \div Abs(b))

\* <<value type, type of the interval bounds>>
TypePairs == {<<"int", "int">>, <<"unsigned", "unsigned">>, <<"long", "int">>}

IntervalsOf(b) == {p \in [lo : TRange(b), hi : TRange(b)] : p.lo <= p.hi}

min4(a, b, c, d) == Min(Min(a, b), Min(c, d))

max4(a, b, c, d) == Max(Max(a, b), Max(c, d))

sat_add(t, a, b) ==
    IF b > 0 /\ a > TMax(t) - b THEN TMax(t)
    ELSE IF b < 0 /\ a < TMin(t) - b THEN TMin(t)
    ELSE Wrap(t, a + b)

sat_sub_wrap(t, a, b) == Wrap(t, a - b)

sat_sub(t, a, b) ==
    IF b < 0 /\ a > TMax(t) + b THEN TMax(t)
    ELSE IF b > 0 /\ a < TMin(t) + b THEN TMin(t)
    ELSE Wrap(t, a - b)

sat_mul(t, a, b) ==
    IF a = 0 \/ b = 0 THEN 0
    ELSE IF a > 0 /\ b > 0 /\ a > TDiv(TMax(t), b) THEN TMax(t)
    ELSE IF a > 0 /\ b < 0 /\ b < TDiv(TMin(t), a) THEN TMin(t)
    ELSE IF a < 0 /\ b > 0 /\ a < TDiv(TMin(t), b) THEN TMin(t)
    ELSE IF a < 0 /\ b < 0 /\ a < TDiv(TMax(t), b) THEN TMax(t)
    ELSE Wrap(t, a * b)

sat_neg(t, a) == IF a = TMin(t) THEN TMax(t) ELSE Wrap(t, -a)

add_intervals(t, p1, p2) ==
    [lo |-> sat_add(t, p1.lo, p2.lo), hi |-> sat_add(t, p1.hi, p2.hi)]

sub_intervals_aligned(t, p1, p2) ==
    [lo |-> sat_sub(t, p1.lo, p2.lo), hi |-> sat_sub(t, p1.hi, p2.hi)]

sub_intervals(t, p1, p2) ==
    [lo |-> sat_sub(t, p1.lo, p2.hi), hi |-> sat_sub(t, p1.hi, p2.lo)]

mul_intervals_ends(t, p1, p2) ==
    [lo |-> sat_mul(t, p1.lo, p2.lo), hi |-> sat_mul(t, p1.hi, p2.hi)]

mul_intervals(t, p1, p2) ==
    LET ac == sat_mul(t, p1.lo, p2.lo)
        ad == sat_mul(t, p1.lo, p2.hi)
        bc == sat_mul(t, p1.hi, p2.lo)
        bd == sat_mul(t, p1.hi, p2.hi)
    IN  [lo |-> min4(ac, ad, bc, bd), hi |-> max4(ac, ad, bc, bd)]

negate_interval(t, p) ==
    [lo |-> sat_neg(t, p.hi), hi |-> sat_neg(t, p.lo)]

\* The outcome of a checked operation: a value, or a thrown refinement_error.
Thrown == [thrown |-> TRUE, v |-> 0]

Value(x) == [thrown |-> FALSE, v |-> x]

checked_add(t, a, b) ==
    IF b > 0 /\ a > TMax(t) - b THEN Thrown
    ELSE IF b < 0 /\ a < TMin(t) - b THEN Thrown
    ELSE Value(Wrap(t, a + b))

checked_sub(t, a, b) ==
    IF b < 0 /\ a > TMax(t) + b THEN Thrown
    ELSE IF b > 0 /\ a < TMin(t) + b THEN Thrown
    ELSE Value(Wrap(t, a - b))

checked_mul(t, a, b) ==
    IF a = 0 \/ b = 0 THEN Value(0)
    ELSE IF a > 0 /\ b > 0 /\ a > TDiv(TMax(t), b) THEN Thrown
    ELSE IF a > 0 /\ b < 0 /\ b < TDiv(TMin(t), a) THEN Thrown
    ELSE IF a < 0 /\ b > 0 /\ a < TDiv(TMin(t), b) THEN Thrown
    ELSE IF a < 0 /\ b < 0 /\ a < TDiv(TMax(t), b) THEN Thrown
    ELSE Value(Wrap(t, a * b))

checked_neg(t, a) == IF a = TMin(t) THEN Thrown ELSE Value(Wrap(t, -a))

\* width = static_cast<U>(hi) - static_cast<U>(lo), in the unsigned type U
\* of T's width.
is_trivially_wide(t, p) == ((p.hi - p.lo) % Modulus(t)) >= TMax(t)

\* The operator's result: the exception of the checked operation, the bare
\* value when the inferred interval is trivially wide, or the value wrapped
\* under the inferred interval without a check.
make_interval_result(t, p, raw) ==
    IF raw.thrown THEN [kind |-> "overflow", v |-> 0, lo |-> 0, hi |-> 0]
    ELSE IF is_trivially_wide(t, p)
         THEN [kind |-> "bare", v |-> raw.v, lo |-> 0, hi |-> 0]
         ELSE [kind |-> "refined", v |-> raw.v, lo |-> p.lo, hi |-> p.hi]

\* Refined<T, Interval<lo, hi>>(v, runtime_check) for the left operand.
ConstructLhs(t, b, p, v) ==
    /\ arith.pc = "idle"
    /\ arith' = IF Interval(p.lo, p.hi, v)
                THEN [pc |-> "lhs", T |-> t, B |-> b,
                      lo |-> p.lo, hi |-> p.hi, v |-> v]
                ELSE [pc |-> "unwound"]
    /\ UNCHANGED <<h, last, idx, snaps, gidx, readers>>

\* The right operand, of the same value type.
ConstructRhs(p, v) ==
    /\ arith.pc = "lhs"
    /\ arith' = IF Interval(p.lo, p.hi, v)
                THEN [pc |-> "both", T |-> arith.T, B |-> arith.B,
                      lo |-> arith.lo, hi |-> arith.hi, v |-> arith.v,
                      lo2 |-> p.lo, hi2 |-> p.hi, v2 |-> v]
                ELSE [pc |-> "unwound"]
    /\ UNCHANGED <<h, last, idx, snaps, gidx, readers>>

P1 == [lo |-> arith.lo, hi |-> arith.hi]

P2 == [lo |-> arith.lo2, hi |-> arith.hi2]

BinaryDone(op, res) ==
    /\ arith' = [pc |-> "done", op |-> op, T |-> arith.T, B |-> arith.B,
                 lo |-> arith.lo, hi |-> arith.hi, v |-> arith.v,
                 lo2 |-> arith.lo2, hi2 |-> arith.hi2, v2 |-> arith.v2,
                 res |-> res]
    /\ UNCHANGED <<h, last, idx, snaps, gidx, readers>>

operator_add ==
    /\ arith.pc = "both"
    /\ BinaryDone("add",
          make_interval_result(arith.T, add_intervals(arith.B, P1, P2),
                               checked_add(arith.T, arith.v, arith.v2)))

operator_sub ==
    /\ arith.pc = "both"
    /\ BinaryDone("sub",
          make_interval_result(arith.T, sub_intervals(arith.B, P1, P2),
                               checked_sub(arith.T, arith.v, arith.v2)))

operator_mul ==
    /\ arith.pc = "both"
    /\ BinaryDone("mul",
          make_interval_result(arith.T, mul_intervals(arith.B, P1, P2),
                               checked_mul(arith.T, arith.v, arith.v2)))

operator_neg ==
    /\ arith.pc = "lhs"
    /\ arith' = [pc |-> "done", op |-> "neg", T |-> arith.T, B |-> arith.B,
                 lo |-> arith.lo, hi |-> arith.hi, v |-> arith.v,
                 res |-> make_interval_result(arith.T,
                            negate_interval(arith.B, P1),
                            checked_neg(arith.T, arith.v))]
    /\ UNCHANGED <<h, last, idx, snaps, gidx, readers>>

\* The operands and the result go out of scope.
ArithReset ==
    /\ arith.pc \in {"done", "unwound"}
    /\ arith' = NoArith
    /\ UNCHANGED <<h, last, idx, snaps, gidx, readers>>

ArithNext ==
    \/ /\ arith.pc = "idle"
       /\ \E tb \in TypePairs :
              \E p \in IntervalsOf(tb[2]), v \in TRange(tb[1]) :
                  ConstructLhs(tb[1], tb[2], p, v)
    \/ /\ arith.pc = "lhs"
       /\ \E p \in IntervalsOf(arith.B), v \in TRange(arith.T) :
              ConstructRhs(p, v)
    \/ operator_add
    \/ operator_sub
    \/ operator_mul
    \/ operator_neg
    \/ ArithReset

ArithSpec == Init /\ [][ArithNext]_vars

\* The mathematical result of the operation that produced arith.
Exact ==
    CASE arith.op = "add" -> arith.v + arith.v2
      [] arith.op = "sub" -> arith.v - arith.v2
      [] arith.op = "mul" -> arith.v * arith.v2
      [] arith.op = "neg" -> -arith.v

\* C2: whenever +, -, * or unary - on operands inside their declared
\* intervals returns a wrapped value, the value lies inside the inferred
\* result interval.
C2_ResultInsideInterval ==
    (arith.pc = "done" /\ arith.res.kind = "refined")
        => Interval(arith.res.lo, arith.res.hi, arith.res.v)

\* C6: +, -, * and unary - return the exact mathematical result when the
\* value type can represent it and signal overflow otherwise, for signed and
\* unsigned types alike.
C6_ExactOrOverflow ==
    arith.pc = "done"
        => IF Exact \in TRange(arith.T)
           THEN arith.res.kind # "overflow" /\ arith.res.v = Exact
           ELSE arith.res.kind = "overflow"

(***************************************************************************)
(* The consumed handle.  The mutations, release and freeze are             *)
(* rvalue-qualified: the caller writes std::move(rc).push_back(x), and the *)
(* variable rc stays in scope, an object of the same type whose vector has *)
(* been moved from (empty).  Specification MoveSpec keeps that object:     *)
(* "auto r = std::move(t).op()" binds the result to r and leaves t as the  *)
(* moved-from object, marked prov = "moved"; a wrapper built from a        *)
(* moved-from object inherits the mark.                                    *)
(***************************************************************************)

MovePreds == FreezePreds \cup {[lo |-> 1, hi |-> VecMax]}

MoveReads == {"front", "back", "size"}

MoveOps == {"push_back", "pop_back", "release"} \cup MoveReads

\* The object a move leaves behind: same type, empty vector.
MovedFrom(w) == Wrapper(PredOf(w), <<>>, "moved")

\* What the record of an operation says about its operand.
OperandRecord(op, err, t) ==
    [op |-> op, err |-> err, old |-> t, lo |-> h[t].lo, hi |-> h[t].hi,
     n |-> Len(h[t].c), consumed |-> h[t].prov = "moved"]

\* auto r = std::move(t).push_back(x);
push_back_from(t, r, x) ==
    /\ t # r
    /\ h[t].st = "live"
    /\ Len(h[t].c) < VecMax
    /\ h' = [h EXCEPT
                ![r] = Wrapper(size_interval_shift(PredOf(h[t]), 1),
                               Append(h[t].c, x), h[t].prov),
                ![t] = MovedFrom(h[t])]
    /\ last' = OperandRecord("push_back", "none", t)
    /\ UNCHANGED <<idx, snaps, gidx, arith, readers>>

\* auto r = std::move(t).pop_back();
pop_back_from(t, r) ==
    /\ t # r
    /\ h[t].st = "live"
    /\ nonempty_provable(PredOf(h[t]))
    /\ h' = [h EXCEPT
                ![r] = Wrapper(size_interval_shift(PredOf(h[t]), -1),
                               PoppedSeq(h[t].c), h[t].prov),
                ![t] = MovedFrom(h[t])]
    /\ last' = OperandRecord("pop_back",
                  IF Len(h[t].c) = 0 THEN "pop_on_empty" ELSE "none", t)
    /\ UNCHANGED <<idx, snaps, gidx, arith, readers>>

\* auto v = std::move(t).release();
release_from(t) ==
    /\ h[t].st = "live"
    /\ h' = [h EXCEPT ![t] = MovedFrom(h[t])]
    /\ last' = OperandRecord("release", "none", t)
    /\ UNCHANGED <<idx, snaps, gidx, arith, readers>>

\* front() and back(): require lo >= 1, then container_.front() / back(),
\* undefined on an empty vector.
ReadEnd(op, t) ==
    /\ h[t].st = "live"
    /\ nonempty_provable(PredOf(h[t]))
    /\ last' = OperandRecord(op,
                  IF Len(h[t].c) = 0 THEN "read_on_empty" ELSE "none", t)
    /\ UNCHANGED <<h, idx, snaps, gidx, arith, readers>>

front(t) == ReadEnd("front", t)

back(t) == ReadEnd("back", t)

\* size(): always available.
size(t) ==
    /\ h[t].st = "live"
    /\ last' = OperandRecord("size", "none", t)
    /\ UNCHANGED <<h, idx, snaps, gidx, arith, readers>>

MoveNext ==
    \/ \E p \in MovePreds, c \in TargetInputs :
           h["source"].st = "none" /\ ConstructChecked("target", p, c)
    \/ \E t \in Handles, r \in Handles, x \in Elem : push_back_from(t, r, x)
    \/ \E t \in Handles, r \in Handles : pop_back_from(t, r)
    \/ \E t \in Handles : release_from(t)
    \/ \E t \in Handles : front(t)
    \/ \E t \in Handles : back(t)
    \/ \E t \in Handles : size(t)

MoveSpec == Init /\ [][MoveNext]_vars

\* C11: front, back and pop_back are available only on a wrapper whose size
\* predicate has lo >= 1, and none of them is ever executed on an empty
\* container.
C11_NeverOnEmpty ==
    /\ \A t \in Handles :
          (h[t].st = "live" /\ h[t].lo = 0)
              => /\ ~ ENABLED front(t)
                 /\ ~ ENABLED back(t)
                 /\ \A r \in Handles : ~ ENABLED pop_back_from(t, r)
    /\ last.op \in {"front", "back", "pop_back"}
          => (last.lo >= 1 /\ last.n >= 1)

\* C12: a handle to which a mutation or release was applied is consumed: no
\* later operation through it reads or mutates a container.
C12_ConsumedHandle ==
    /\ \A t \in Handles :
          (h[t].st = "live" /\ h[t].prov = "moved" /\ h[t].c = <<>>)
              => /\ ~ ENABLED size(t)
                 /\ \A r \in Handles, x \in Elem :
                       ~ ENABLED push_back_from(t, r, x)
    /\ last.op \in MoveOps => ~ last.consumed

(***************************************************************************)
(* Bound inference on its own (specification BoundSpec): the saturating    *)
(* primitives and the interval combinators, called with every pair of      *)
(* bounds and every pair of intervals of each integer type.                *)
(***************************************************************************)

SatFns == {"sat_add", "sat_sub", "sat_mul"}

InferFns == {"add", "sub", "mul"}

\* detail::sat_add<T>(a, b), sat_sub<T>(a, b), sat_mul<T>(a, b)
SatCall(fn, t, a, b) ==
    /\ arith.pc = "idle"
    /\ arith' = [pc |-> "sat", fn |-> fn, T |-> t, a |-> a, b |-> b,
                 out |-> CASE fn = "sat_add" -> sat_add(t, a, b)
                           [] fn = "sat_sub" -> sat_sub(t, a, b)
                           [] fn = "sat_mul" -> sat_mul(t, a, b)]
    /\ UNCHANGED <<h, last, idx, snaps, gidx, readers>>

\* add_intervals<P1, P2>(), sub_intervals<P1, P2>(), mul_intervals<P1, P2>()
InferCall(fn, t, p1, p2) ==
    /\ arith.pc = "idle"
    /\ arith' = [pc |-> "bounds", fn |-> fn, T |-> t,
                 lo |-> p1.lo, hi |-> p1.hi, lo2 |-> p2.lo, hi2 |-> p2.hi,
                 out |-> CASE fn = "add" -> add_intervals(t, p1, p2)
                           [] fn = "sub" -> sub_intervals(t, p1, p2)
                           [] fn = "mul" -> mul_intervals(t, p1, p2)]
    /\ UNCHANGED <<h, last, idx, snaps, gidx, readers>>

\* negate_interval<P>()
NegateCall(t, p) ==
    /\ arith.pc = "idle"
    /\ arith' = [pc |-> "bounds", fn |-> "negate", T |-> t,
                 lo |-> p.lo, hi |-> p.hi,
                 out |-> negate_interval(t, p)]
    /\ UNCHANGED <<h, last, idx, snaps, gidx, readers>>

BoundReturn ==
    /\ arith.pc \in {"sat", "bounds"}
    /\ arith' = NoArith
    /\ UNCHANGED <<h, last, idx, snaps, gidx, readers>>

BoundNext ==
    \/ /\ arith.pc = "idle"
       /\ \E fn \in SatFns, t \in IntTypes :
              \E a \in TRange(t), b \in TRange(t) : SatCall(fn, t, a, b)
    \/ /\ arith.pc = "idle"
       /\ \E fn \in InferFns, t \in IntTypes :
              \E p1 \in IntervalsOf(t), p2 \in IntervalsOf(t) :
                  InferCall(fn, t, p1, p2)
    \/ /\ arith.pc = "idle"
       /\ \E t \in IntTypes : \E p \in IntervalsOf(t) : NegateCall(t, p)
    \/ BoundReturn

BoundSpec == Init /\ [][BoundNext]_vars

\* x clamped to the representable range of type t.
Clamp(t, x) == Max(TMin(t), Min(TMax(t), x))

\* The mathematical result of the primitive that produced arith.
SatExact ==
    CASE arith.fn = "sat_add" -> arith.a + arith.b
      [] arith.fn = "sat_sub" -> arith.a - arith.b
      [] arith.fn = "sat_mul" -> arith.a * arith.b

\* C13: for signed and unsigned types and all bounds a, b, sat_add, sat_sub
\* and sat_mul return the exact mathematical result clamped to the type's
\* [min, max]; the result is never a wrapped-around value.
C13_SaturatingExact ==
    arith.pc = "sat"
        => /\ arith.out = Clamp(arith.T, SatExact)
           /\ arith.out \in TRange(arith.T)

\* An unsigned difference below zero, clamped to 0.
C13_Witness ==
    /\ arith.pc = "sat" /\ arith.fn = "sat_sub" /\ arith.T = "unsigned"
    /\ arith.a < arith.b /\ arith.out = 0

\* C14: the inferred interval of an addition is [a_lo+b_lo, a_hi+b_hi] and
\* of a subtraction [a_lo-b_hi, a_hi-b_lo], whenever those sums and
\* differences are representable.
C14_AddSubBounds ==
    /\ (arith.pc = "bounds" /\ arith.fn = "add"
        /\ arith.lo + arith.lo2 \in TRange(arith.T)
        /\ arith.hi + arith.hi2 \in TRange(arith.T))
          => arith.out = [lo |-> arith.lo + arith.lo2,
                          hi |-> arith.hi + arith.hi2]
    /\ (arith.pc = "bounds" /\ arith.fn = "sub"
        /\ arith.lo - arith.hi2 \in TRange(arith.T)
        /\ arith.hi - arith.lo2 \in TRange(arith.T))
          => arith.out = [lo |-> arith.lo - arith.hi2,
                          hi |-> arith.hi - arith.lo2]

\* A subtraction of an interval that straddles zero, whose bounds cross
\* over: [a_lo - b_hi, a_hi - b_lo] differs from [a_lo - b_lo, a_hi - b_hi].
C14_Witness ==
    /\ arith.pc = "bounds" /\ arith.fn = "sub"
    /\ arith.lo2 < 0 /\ arith.hi2 > 0 /\ arith.lo < arith.hi
    /\ arith.out = [lo |-> arith.lo - arith.hi2, hi |-> arith.hi - arith.lo2]

\* C15: the inferred interval of a multiplication is [min, max] of the four
\* saturated cross products of the operand bounds, for every sign
\* combination.
C15_MulBounds ==
    (arith.pc = "bounds" /\ arith.fn = "mul")
        => LET ac == Clamp(arith.T, arith.lo * arith.lo2)
               ad == Clamp(arith.T, arith.lo * arith.hi2)
               bc == Clamp(arith.T, arith.hi * arith.lo2)
               bd == Clamp(arith.T, arith.hi * arith.hi2)
           IN  /\ arith.out.lo = Min(Min(ac, ad), Min(bc, bd))
               /\ arith.out.hi = Max(Max(ac, ad), Max(bc, bd))

\* Both operands straddle zero and the extremes come from the mixed
\* products: the lower bound is a_lo*b_hi, the upper bound a_lo*b_lo.
C15_Witness ==
    /\ arith.pc = "bounds" /\ arith.fn = "mul"
    /\ arith.lo < 0 /\ arith.hi > 0 /\ arith.lo2 < 0 /\ arith.hi2 > 0
    /\ arith.out.lo = arith.lo * arith.hi2
    /\ arith.out.lo < arith.hi * arith.lo2
    /\ arith.out.hi = arith.lo * arith.lo2
    /\ arith.out.hi > arith.hi * arith.hi2

\* The negation of one bound: the most-negative value of the type goes to
\* the most-positive, every other bound to its exact negation.
NegatedBound(t, x) == IF x = TMin(t) THEN TMax(t) ELSE -x

\* C16: the inferred interval of the negation of [lo, hi] is [-hi, -lo] in
\* every integer type; only the type's most-negative value is changed, to
\* the most-positive, and no bound is wrapped.
C16_NegateBounds ==
    (arith.pc = "bounds" /\ arith.fn = "negate")
        => arith.out = [lo |-> NegatedBound(arith.T, arith.hi),
                        hi |-> NegatedBound(arith.T, arith.lo)]

\* Half of the representable range of type t.
HalfRange(t) == Modulus(t) \div 2

\* The interval the operation that produced arith infers for its result.
InferredPred ==
    CASE arith.op = "add" -> add_intervals(arith.B, P1, P2)
      [] arith.op = "sub" -> sub_intervals(arith.B, P1, P2)
      [] arith.op = "mul" -> mul_intervals(arith.B, P1, P2)
      [] arith.op = "neg" -> negate_interval(arith.B, P1)

\* C17: for signed and unsigned types, an operation whose inferred result
\* interval [lo, hi] is at least half the representable range wide returns
\* the bare value, never a wrapped interval value.
C17_DegradeAtHalfRange ==
    (arith.pc = "done"
     /\ InferredPred.hi - InferredPred.lo >= HalfRange(arith.T))
        => arith.res.kind # "refined"

(***************************************************************************)
(* The exceptions of the checked paths (specification ErrorSpec).  An      *)
(* exception object is what a handler can tell apart: its dynamic type     *)
(* and the head of its what() text.                                        *)
(***************************************************************************)

NoException == [type |-> "none", what |-> ""]

\* throw refinement_error(value_): the constructor taking the value formats
\* "Refinement violation: {} does not satisfy {}".
violation_error ==
    [type |-> "refinement_error", what |-> "Refinement violation"]

\* throw refinement_error("integer overflow in addition"): the argument is
\* a character array, so overload resolution takes the same constructor
\* template (an exact match) before the one taking std::string (a
\* conversion), and the text is formatted as a violating value.
overflow_error ==
    [type |-> "refinement_error", what |-> "Refinement violation"]

CheckedFns == {"checked_add", "checked_sub", "checked_mul", "checked_neg"}

\* try { Refined<T, Interval<lo, hi>{}> r(v, runtime_check); }
RefineChecked(t, p, v) ==
    /\ last.op = "none"
    /\ last' = [op |-> "refine_checked", T |-> t, lo |-> p.lo, hi |-> p.hi,
                a |-> v,
                exc |-> IF Interval(p.lo, p.hi, v) THEN NoException
                        ELSE violation_error]
    /\ UNCHANGED <<h, idx, snaps, gidx, arith, readers>>

\* try { detail::checked_add(a, b); } and the other checked operations.
CheckedCall(fn, t, a, b) ==
    /\ last.op = "none"
    /\ LET r == CASE fn = "checked_add" -> checked_add(t, a, b)
                  [] fn = "checked_sub" -> checked_sub(t, a, b)
                  [] fn = "checked_mul" -> checked_mul(t, a, b)
                  [] fn = "checked_neg" -> checked_neg(t, a)
       IN  last' = [op |-> fn, T |-> t, a |-> a, b |-> b,
                    exc |-> IF r.thrown THEN overflow_error
                            ELSE NoException]
    /\ UNCHANGED <<h, idx, snaps, gidx, arith, readers>>

\* catch (...) { }: the handler is left.
Caught ==
    /\ last.op \in CheckedFns \cup {"refine_checked"}
    /\ last' = NoLast
    /\ UNCHANGED <<h, idx, snaps, gidx, arith, readers>>

ErrorNext ==
    \/ /\ last.op = "none"
       /\ \E t \in IntTypes :
              \E p \in IntervalsOf(t), v \in TRange(t) : RefineChecked(t, p, v)
    \/ /\ last.op = "none"
       /\ \E fn \in CheckedFns, t \in IntTypes :
              \E a \in TRange(t), b \in TRange(t) : CheckedCall(fn, t, a, b)
    \/ Caught

ErrorSpec == Init /\ [][ErrorNext]_vars

\* C18: the error of an overflow in checked integer arithmetic is of a kind
\* a caller can tell from the error of a checked construction whose
\* predicate is false.
C18_DistinctErrorKinds ==
    /\ (last.op \in CheckedFns /\ last.exc # NoException)
          => (last.exc.type # violation_error.type
              \/ last.exc.what # violation_error.what)
    /\ (last.op = "refine_checked" /\ last.exc # NoException)
          => (last.exc.type # overflow_error.type
              \/ last.exc.what # overflow_error.what)

(***************************************************************************)
(* The same-predicate overloads of +, - and * (specification SameSpec):    *)
(* both operands are Refined<T, P> with one and the same P.                *)
(***************************************************************************)

same_add(t, b, p, x, y) ==
    make_interval_result(t, add_intervals(b, p, p), checked_add(t, x, y))

same_sub_zero(t, b, p, x, y) ==
    make_interval_result(t, [lo |-> 0, hi |-> 0], checked_sub(t, x, y))

same_sub(t, b, p, x, y) ==
    make_interval_result(t, sub_intervals(b, p, p), checked_sub(t, x, y))

same_mul(t, b, p, x, y) ==
    make_interval_result(t, mul_intervals(b, p, p), checked_mul(t, x, y))

operator_add_same ==
    /\ arith.pc = "both" /\ P1 = P2
    /\ BinaryDone("add_same",
                  same_add(arith.T, arith.B, P1, arith.v, arith.v2))

operator_sub_same ==
    /\ arith.pc = "both" /\ P1 = P2
    /\ BinaryDone("sub_same",
                  same_sub(arith.T, arith.B, P1, arith.v, arith.v2))

operator_mul_same ==
    /\ arith.pc = "both" /\ P1 = P2
    /\ BinaryDone("mul_same",
                  same_mul(arith.T, arith.B, P1, arith.v, arith.v2))

SameNext ==
    \/ /\ arith.pc = "idle"
       /\ \E tb \in TypePairs :
              \E p \in IntervalsOf(tb[2]), v \in TRange(tb[1]) :
                  ConstructLhs(tb[1], tb[2], p, v)
    \/ /\ arith.pc = "lhs"
       /\ \E v \in TRange(arith.T) : ConstructRhs(P1, v)
    \/ operator_add_same
    \/ operator_sub_same
    \/ operator_mul_same
    \/ ArithReset

SameSpec == Init /\ [][SameNext]_vars

\* What the generic two-interval operator returns for the operands of
\* arith, typed P1 and P2.
GenericResult(op) ==
    CASE op = "add_same" ->
           make_interval_result(arith.T, add_intervals(arith.B, P1, P2),
                                checked_add(arith.T, arith.v, arith.v2))
      [] op = "sub_same" ->
           make_interval_result(arith.T, sub_intervals(arith.B, P1, P2),
                                checked_sub(arith.T, arith.v, arith.v2))
      [] op = "mul_same" ->
           make_interval_result(arith.T, mul_intervals(arith.B, P1, P2),
                                checked_mul(arith.T, arith.v, arith.v2))

\* C19: on operands that share one interval predicate P, the same-predicate
\* +, - and * return the result interval and the value or error that the
\* generic two-interval operators return for the pair (P, P).
C19_SamePredicate ==
    (arith.pc = "done" /\ arith.op \in {"add_same", "sub_same", "mul_same"})
        => arith.res = GenericResult(arith.op)

\* x - y under one predicate [lo, hi] with lo < hi: the result is typed
\* [lo - hi, hi - lo], not [0, 0].
C19_Witness ==
    /\ arith.pc = "done" /\ arith.op = "sub_same"
    /\ arith.lo < arith.hi /\ arith.v # arith.v2
    /\ arith.res.kind = "refined"
    /\ arith.res.lo = arith.lo - arith.hi
    /\ arith.res.hi = arith.hi - arith.lo

(***************************************************************************)
(* increment and decrement (specification StepSpec): try_refine<Pred> of   *)
(* val.get() + T{1} and val.get() - T{1}, computed in T without a check.   *)
(***************************************************************************)

\* The values x + d can take in type t: the sum when representable, the
\* wrapped sum in an unsigned type, and any value of the type after a
\* signed overflow, which is undefined.
UncheckedSum(t, x, d) ==
    IF x + d \in TRange(t) THEN {x + d}
    ELSE IF t = "unsigned" THEN {Wrap(t, x + d)}
    ELSE TRange(t)

\* try_refine<Predicate>(value): the wrapper when the predicate holds,
\* std::nullopt when it does not.
try_refine(p, x) ==
    IF Interval(p.lo, p.hi, x)
    THEN [kind |-> "some", v |-> x, lo |-> p.lo, hi |-> p.hi]
    ELSE [kind |-> "nullopt", v |-> 0, lo |-> 0, hi |-> 0]

StepDone(op, d) ==
    /\ arith.pc = "lhs"
    /\ \E raw \in UncheckedSum(arith.T, arith.v, d) :
          arith' = [pc |-> "done", op |-> op, T |-> arith.T, B |-> arith.B,
                    lo |-> arith.lo, hi |-> arith.hi, v |-> arith.v,
                    res |-> try_refine(P1, raw)]
    /\ UNCHANGED <<h, last, idx, snaps, gidx, readers>>

increment == StepDone("increment", 1)

decrement == StepDone("decrement", -1)

StepNext ==
    \/ /\ arith.pc = "idle"
       /\ \E tb \in TypePairs :
              \E p \in IntervalsOf(tb[2]), v \in TRange(tb[1]) :
                  ConstructLhs(tb[1], tb[2], p, v)
    \/ increment
    \/ decrement
    \/ ArithReset

StepSpec == Init /\ [][StepNext]_vars

\* The value increment or decrement aims at.
StepTarget == IF arith.op = "increment" THEN arith.v + 1 ELSE arith.v - 1

\* C20: increment of a value v wrapped under P returns a wrapper of v + 1
\* under the same P when v + 1 is representable and satisfies P, and an
\* absent result otherwise, the type's maximum included; decrement does the
\* same with v - 1 and the type's minimum.
C20_IncrementDecrement ==
    (arith.pc = "done" /\ arith.op \in {"increment", "decrement"})
        => IF StepTarget \in TRange(arith.T)
              /\ Interval(arith.lo, arith.hi, StepTarget)
           THEN arith.res = [kind |-> "some", v |-> StepTarget,
                             lo |-> arith.lo, hi |-> arith.hi]
           ELSE arith.res.kind = "nullopt"

(***************************************************************************)
(* Coercion between predicates of one value type (specification           *)
(* CoerceSpec): refine_to<ToRefined>(from) and try_refine_to.              *)
(***************************************************************************)

\* The wrapper a successful coercion returns.
Coerced(q, x) == [kind |-> "some", v |-> x, lo |-> q.lo, hi |-> q.hi]

refine_to_result_unchecked(q, x) == Coerced(q, x)

\* ToRefined(from.get(), runtime_check)
refine_to_result(q, x) ==
    IF Interval(q.lo, q.hi, x) THEN Coerced(q, x)
    ELSE [kind |-> "refinement_error", v |-> 0, lo |-> 0, hi |-> 0]

CoerceDone(op, q, res) ==
    /\ arith.pc = "lhs"
    /\ arith' = [pc |-> "done", op |-> op, T |-> arith.T, B |-> arith.B,
                 lo |-> arith.lo, hi |-> arith.hi, v |-> arith.v,
                 lo2 |-> q.lo, hi2 |-> q.hi, res |-> res]
    /\ UNCHANGED <<h, last, idx, snaps, gidx, readers>>

refine_to(q) == CoerceDone("refine_to", q, refine_to_result(q, arith.v))

\* try_refine<ToRefined>(from.get())
try_refine_to(q) == CoerceDone("try_refine_to", q, try_refine(q, arith.v))

CoerceNext ==
    \/ /\ arith.pc = "idle"
       /\ \E tb \in TypePairs :
              \E p \in IntervalsOf(tb[2]), v \in TRange(tb[1]) :
                  ConstructLhs(tb[1], tb[2], p, v)
    \/ /\ arith.pc = "lhs"
       /\ \E q \in IntervalsOf(arith.B) : refine_to(q)
    \/ /\ arith.pc = "lhs"
       /\ \E q \in IntervalsOf(arith.B) : try_refine_to(q)
    \/ ArithReset

CoerceSpec == Init /\ [][CoerceNext]_vars

\* C21: coercion to a predicate Q evaluates Q on the unchanged inner value:
\* refine_to returns the Q-wrapper of that value when Q holds and signals a
\* refinement violation when it does not, and try_refine_to returns the same
\* wrapper or, exactly where refine_to signals, an absent result.
C21_Coercion ==
    (arith.pc = "done" /\ arith.op \in {"refine_to", "try_refine_to"})
        => IF arith.lo2 <= arith.v /\ arith.v <= arith.hi2
           THEN arith.res = [kind |-> "some", v |-> arith.v,
                             lo |-> arith.lo2, hi |-> arith.hi2]
           ELSE arith.res.kind = IF arith.op = "refine_to"
                                 THEN "refinement_error" ELSE "nullopt"

\* A coercion to a predicate that overlaps the source predicate and does
\* not contain the value: refine_to signalled.
C21_Witness ==
    /\ arith.pc = "done" /\ arith.op = "refine_to"
    /\ arith.res.kind = "refinement_error"
    /\ arith.lo < arith.lo2 /\ arith.lo2 <= arith.hi
    /\ arith.v = arith.lo2 - 1

(***************************************************************************)
(* Construction followed by release (specification RoundSpec), for a      *)
(* Refined value and for a RefinedContainer.  The record of a release      *)
(* keeps, as history, the record of the construction of its operand.      *)
(***************************************************************************)

\* Refined(T value, assume_valid_t): the value is stored without a check.
ConstructIndexTrusted(ip, v) ==
    /\ idx' = [st |-> "live", lo |-> ip.lo, hi |-> ip.hi, v |-> v]
    /\ last' = [op |-> "refine_trusted", err |-> "none",
                lo |-> ip.lo, hi |-> ip.hi, arg |-> v]
    /\ UNCHANGED <<h, snaps, gidx, arith, readers>>

\* RefinedContainer(Container, assume_valid_t)
ConstructTrusted(r, p, c) ==
    /\ h[r].st # "live"
    /\ h' = [h EXCEPT ![r] = Wrapper(p, c, "trusted")]
    /\ last' = [op |-> "construct_trusted", err |-> "none", res |-> r,
                lo |-> p.lo, hi |-> p.hi, arg |-> c]
    /\ UNCHANGED <<idx, snaps, gidx, arith, readers>>

released_moved_from(w) == <<>>

\* return std::move(container_); / return std::move(value_);
released(w) == w.c

\* T x = std::move(r).release();
release_value ==
    /\ idx.st = "live"
    /\ last' = [op |-> "release_value", err |-> "none", out |-> idx.v,
                built |-> last]
    /\ idx' = NoIdx
    /\ UNCHANGED <<h, snaps, gidx, arith, readers>>

\* Container c = std::move(rc).release(); rc goes out of scope.
release(t) ==
    /\ h[t].st = "live"
    /\ last' = [op |-> "release", err |-> "none", out |-> released(h[t]),
                built |-> last]
    /\ h' = [h EXCEPT ![t] = NoHandle]
    /\ UNCHANGED <<idx, snaps, gidx, arith, readers>>

RoundInputs == SeqsUpTo(Elem, VecMax)

RoundNext ==
    \/ /\ h = Unwound /\ idx.st = "none"
       /\ \E ip \in IndexPreds, v \in 0..SizeMax : ConstructIndex(ip, v)
    \/ /\ h = Unwound /\ idx.st = "none"
       /\ \E ip \in IndexPreds, v \in 0..SizeMax :
              ConstructIndexTrusted(ip, v)
    \/ release_value
    \/ /\ idx.st = "none"
       /\ \E p \in SizePreds, c \in RoundInputs :
              ConstructChecked("target", p, c)
    \/ /\ idx.st = "none"
       /\ \E p \in SizePreds, c \in RoundInputs :
              ConstructTrusted("target", p, c)
    \/ release("target")

RoundSpec == Init /\ [][RoundNext]_vars

\* C22: for every x that satisfies the predicate, release of the checked
\* wrapper of x and release of the trusted wrapper of x return exactly x,
\* for a value and for a container wrapped in a RefinedContainer.
C22_ReleaseRoundTrip ==
    /\ (last.op = "release_value"
        /\ last.built.op \in {"refine", "refine_trusted"}
        /\ Interval(last.built.lo, last.built.hi, last.built.arg))
          => last.out = last.built.arg
    /\ (last.op = "release"
        /\ last.built.op \in {"construct", "construct_trusted"}
        /\ SizeInterval(last.built.lo, last.built.hi, Len(last.built.arg)))
          => last.out = last.built.arg

\* A container of two different elements, wrapped without a check under a
\* predicate it satisfies, and released.
C22_Witness ==
    /\ last.op = "release" /\ last.built.op = "construct_trusted"
    /\ SizeInterval(last.built.lo, last.built.hi, Len(last.built.arg))
    /\ last.built.arg = <<"b", "a">>
    /\ last.out = <<"b", "a">>

(***************************************************************************)
(* Chained mutations (specification ChainSpec):                            *)
(* std::move(rc).push_back(x).pop_back() as one expression.                *)
(***************************************************************************)

\* The temporary std::move(rc).push_back(x) returns.
Pushed(w, x) ==
    Wrapper(size_interval_shift(PredOf(w), 1), Append(w.c, x), w.prov)

\* The wrapper pop_back() && returns for the wrapper w.
Popped(w) ==
    Wrapper(size_interval_shift(PredOf(w), -1), PoppedSeq(w.c), w.prov)

\* auto r = std::move(rc).push_back(x).pop_back();
push_pop(t, x) ==
    /\ h[t].st = "live"
    /\ IF Len(h[t].c) < VecMax
       THEN /\ nonempty_provable(PredOf(Pushed(h[t], x)))
            /\ h' = Rebind({t}, t, Popped(Pushed(h[t], x)))
            /\ last' = MutRecord("push_pop", "none", t, Delta(0), 0)
       ELSE /\ h' = Unwound
            /\ last' = MutRecord("push_pop", "length_error", t, Delta(0), 0)
    /\ UNCHANGED <<idx, snaps, gidx, arith, readers>>

ChainNext ==
    \/ \E p \in SizePreds, c \in RoundInputs : ConstructChecked("target", p, c)
    \/ \E x \in Elem : push_back("target", x)
    \/ pop_back("target")
    \/ \E x \in Elem : push_pop("target", x)

ChainSpec == Init /\ [][ChainNext]_vars

\* C23: for every size predicate [lo, hi], appending one element and then
\* removing the last element gives back a wrapper with the size predicate
\* [lo, hi] and the original length.
C23_PushPopRestores ==
    (last.op = "push_pop" /\ last.err = "none")
        => /\ h[last.res].lo = last.lo
           /\ h[last.res].hi = last.hi
           /\ Len(h[last.res].c) = last.n

\* C23, amended: appending one element and then removing the last gives
\* back the original length and the size predicate [lo, hi] when hi is
\* below the maximum of the size domain; a bound at the maximum saturates
\* on the way up and comes back as max - 1.
C23_PushPopRestoresBelowMax ==
    (last.op = "push_pop" /\ last.err = "none")
        => /\ h[last.res].lo = Min(last.lo, SizeMax - 1)
           /\ h[last.res].hi = Min(last.hi, SizeMax - 1)
           /\ Len(h[last.res].c) = last.n
           /\ last.hi < SizeMax
                 => PredOf(h[last.res]) = [lo |-> last.lo, hi |-> last.hi]

\* A round trip on a non-empty wrapper whose predicate [lo, hi] is bounded
\* below the maximum, restored exactly.
C23_Witness ==
    /\ last.op = "push_pop" /\ last.err = "none"
    /\ last.n >= 1 /\ last.lo >= 1 /\ last.hi < SizeMax
    /\ PredOf(h[last.res]) = [lo |-> last.lo, hi |-> last.hi]
    /\ Len(h[last.res].c) = last.n

(***************************************************************************)
(* Concurrent readers of a frozen pair (specification ReaderSpec).  Each   *)
(* thread runs check() and operator[] on the guard and the frozen          *)
(* container of one execution of freeze; a call is split at its read of    *)
(* the shared object, so that calls of different threads interleave.       *)
(***************************************************************************)

\* The arguments the readers pass to check().
ReaderArgs == 0..(VecMax + 1)

\* A guard that records the index it was last asked about.
check_caching(s, i) == [s EXCEPT !.size = i]

\* check() is a const member function: the pair after the call.
check_const(s, i) == s

\* check(i), first half: the thread loads size_ of the guard.
reader_check_load(r, k, i) ==
    /\ readers[r].pc = "idle"
    /\ snaps[k].st = "live"
    /\ readers' = [readers EXCEPT ![r] =
                      [pc |-> "loaded", call |-> k, arg |-> i,
                       size |-> snaps[k].size]]
    /\ snaps' = [snaps EXCEPT ![k] = check_const(snaps[k], i)]
    /\ UNCHANGED <<h, last, idx, gidx, arith>>

\* check(i), second half: idx < size_ on the loaded value, and the return.
reader_check_return(r) ==
    /\ readers[r].pc = "loaded"
    /\ readers' = [readers EXCEPT ![r] =
                      [pc |-> "checked", call |-> readers[r].call,
                       arg |-> readers[r].arg,
                       res |-> IF check_ok(readers[r].arg, readers[r].size)
                               THEN [st |-> "some",
                                     tag |-> snaps[readers[r].call].tag,
                                     index |-> readers[r].arg,
                                     call |-> readers[r].call]
                               ELSE NoGidx]]
    /\ UNCHANGED <<h, last, idx, snaps, gidx, arith>>

\* frozen[*idx] with the index the thread's own check() returned.
reader_index(r) ==
    /\ readers[r].pc = "checked"
    /\ readers[r].res.st = "some"
    /\ LET k == readers[r].call
           i == readers[r].res.index
       IN  \E val \in Elem :
              /\ i < Len(snaps[k].c) => val = snaps[k].c[i + 1]
              /\ readers' = [readers EXCEPT ![r] =
                                [pc |-> "indexed", call |-> k, pos |-> i,
                                 val |-> val]]
    /\ UNCHANGED <<h, last, idx, snaps, gidx, arith>>

\* The thread drops its results and is free for the next call.
reader_done(r) ==
    /\ readers[r].pc \in {"checked", "indexed"}
    /\ readers' = [readers EXCEPT ![r] = NoReader]
    /\ UNCHANGED <<h, last, idx, snaps, gidx, arith>>

\* One wrapper is built, grown and frozen; the threads then share the pair.
ReaderNext ==
    \/ /\ snaps["A"].st = "none"
       /\ \E p \in FreezePreds, c \in TargetInputs :
              ConstructChecked("target", p, c)
    \/ \E x \in Elem : push_back("target", x)
    \/ \E site \in Sites : freeze("target", site)
    \/ \E r \in Readers, k \in Calls, i \in ReaderArgs :
           reader_check_load(r, k, i)
    \/ \E r \in Readers : reader_check_return(r)
    \/ \E r \in Readers : reader_index(r)
    \/ \E r \in Readers : reader_done(r)

ReaderSpec == Init /\ [][ReaderNext]_vars

\* What check(i) and operator[] return on the pair k when run alone.
SoloCheck(k, i) ==
    IF i < Len(snaps[k].c)
    THEN [st |-> "some", tag |-> snaps[k].tag, index |-> i, call |-> k]
    ELSE NoGidx

\* C24: under any interleaving of check() calls and index lookups of
\* several readers on one guard / frozen-container pair, the guard's
\* captured length and the frozen container's length and elements never
\* change, and every call returns what it returns when run alone.
C24_ConcurrentReaders ==
    /\ [](\A r \in Readers :
            /\ readers[r].pc = "checked"
                  => readers[r].res = SoloCheck(readers[r].call,
                                                readers[r].arg)
            /\ readers[r].pc = "indexed"
                  => /\ readers[r].pos < Len(snaps[readers[r].call].c)
                     /\ readers[r].val =
                           snaps[readers[r].call].c[readers[r].pos + 1])
    /\ [][\A k \in Calls : snaps[k].st = "live" => snaps'[k] = snaps[k]]_vars

\* One thread has read the element at the index its check returned while
\* the other thread is between the load and the compare of a check that
\* its guard refuses.
C24_Witness ==
    /\ readers["r1"].pc = "indexed"
    /\ readers["r1"].val = "b"
    /\ readers["r2"].pc = "loaded"
    /\ readers["r2"].call = readers["r1"].call
    /\ readers["r2"].arg = readers["r2"].size

(***************************************************************************)
(* Predicate combinators (specification CombSpec).  A predicate is any     *)
(* callable whose result converts to bool, so the argument predicates are  *)
(* described by the raw results they return on the value at hand: 0 is     *)
(* false and any other result is true.                                     *)
(***************************************************************************)

\* The most argument predicates a combinator is given.
MaxPreds == 3

\* The raw results of the argument predicates: false, true, and a second
\* result that converts to true.
RawResults == {0, 1, 2}

\* The conversion to bool.
Truth(x) == x # 0

RawTuples == SeqsUpTo(RawResults, MaxPreds)

\* std::size_t count = 0; ((count += Preds(v) ? 1 : 0), ...);
CountTrue(rs) == Cardinality({i \in 1..Len(rs) : Truth(rs[i])})

\* (Preds(v) && ...)
All(rs) == \A i \in 1..Len(rs) : Truth(rs[i])

\* Any: (Preds(v) || ...).  TLC defines Any, hence the name.
AnyOf(rs) == \E i \in 1..Len(rs) : Truth(rs[i])

\* !Pred(v)
Not(rs) == ~ Truth(rs[1])

\* !Condition(v) || Consequence(v)
If(rs) == (~ Truth(rs[1])) \/ Truth(rs[2])

\* P1(v) == P2(v), on the results as the predicates return them
Iff(rs) == rs[1] = rs[2]

\* P1(v) != P2(v), on the results as the predicates return them
Xor(rs) == rs[1] # rs[2]

ExactlyN(n, rs) == CountTrue(rs) = n

AtLeastN(n, rs) == CountTrue(rs) >= n

AtMostN(n, rs) == CountTrue(rs) <= n

Combinators ==
    {"All", "Any", "Not", "If", "Iff", "Xor", "ExactlyN", "AtLeastN",
     "AtMostN"}

\* The number of predicates each combinator's template takes.
Arity(fn) ==
    CASE fn = "Not" -> {1}
      [] fn \in {"If", "Iff", "Xor"} -> {2}
      [] OTHER -> 0..MaxPreds

Evaluate(fn, n, rs) ==
    CASE fn = "All" -> All(rs)
      [] fn = "Any" -> AnyOf(rs)
      [] fn = "Not" -> Not(rs)
      [] fn = "If" -> If(rs)
      [] fn = "Iff" -> Iff(rs)
      [] fn = "Xor" -> Xor(rs)
      [] fn = "ExactlyN" -> ExactlyN(n, rs)
      [] fn = "AtLeastN" -> AtLeastN(n, rs)
      [] fn = "AtMostN" -> AtMostN(n, rs)

\* The combinator fn, instantiated with threshold n, is called on a value
\* for which its argument predicates return rs.
Combine(fn, n, rs) ==
    /\ arith.pc = "idle"
    /\ Len(rs) \in Arity(fn)
    /\ fn \in {"ExactlyN", "AtLeastN", "AtMostN"} \/ n = 0
    /\ arith' = [pc |-> "comb", fn |-> fn, n |-> n, args |-> rs,
                 out |-> Evaluate(fn, n, rs)]
    /\ UNCHANGED <<h, last, idx, snaps, gidx, readers>>

CombReturn ==
    /\ arith.pc = "comb"
    /\ arith' = NoArith
    /\ UNCHANGED <<h, last, idx, snaps, gidx, readers>>

CombNext ==
    \/ /\ arith.pc = "idle"
       /\ \E fn \in Combinators, n \in 0..MaxPreds, rs \in RawTuples :
              Combine(fn, n, rs)
    \/ CombReturn

CombSpec == Init /\ [][CombNext]_vars

\* The truth-functional definition of each combinator, on truth values.
TruthFunctional(fn, n, ts) ==
    LET trues == Cardinality({i \in 1..Len(ts) : ts[i]})
    IN  CASE fn = "All" -> \A i \in 1..Len(ts) : ts[i]
          [] fn = "Any" -> \E i \in 1..Len(ts) : ts[i]
          [] fn = "Not" -> ~ ts[1]
          [] fn = "If" -> (~ ts[1]) \/ ts[2]
          [] fn = "Iff" -> ts[1] <=> ts[2]
          [] fn = "Xor" -> ~ (ts[1] <=> ts[2])
          [] fn = "ExactlyN" -> trues = n
          [] fn = "AtLeastN" -> trues >= n
          [] fn = "AtMostN" -> trues <= n

\* C25: every predicate combinator evaluates to its truth-functional
\* definition on every value: All is the conjunction, Any the disjunction,
\* Not the negation, If(C, Q) is (not C) or Q, Iff the equality and Xor
\* the inequality of the two truth values, and ExactlyN / AtLeastN /
\* AtMostN hold exactly when the number of true arguments is = n, >= n,
\* <= n.
C25_Combinators ==
    arith.pc = "comb"
        => arith.out =
              TruthFunctional(arith.fn, arith.n,
                              [i \in 1..Len(arith.args) |->
                                   Truth(arith.args[i])])

(***************************************************************************)
(* Arithmetic on operands wrapped under one non-interval predicate         *)
(* (specification PlainSpec): Refined<T, Positive> and                     *)
(* Refined<T, NonNegative> with T = int or double.  The doubles are whole  *)
(* numbers of small magnitude, on which + and * are exact.                 *)
(***************************************************************************)

NamedPreds == {"Positive", "NonNegative"}

PlainTypes == {"int", "double"}

PlainOps == {"plus", "minus", "multiplies"}

\* Positive: v > 0.  NonNegative: v >= 0.
Holds(pr, x) == IF pr = "Positive" THEN x > 0 ELSE x >= 0

\* The values of type t the operands are drawn from.
PlainValues(t) == IF t = "int" THEN TRange("int") ELSE 0..IntHalf

\* traits::preserves<Pred, Op, T>::value: false by default, true for the
\* floating-point specialisations of Positive and NonNegative under
\* std::plus<> and std::multiplies<>.
preserves(pr, op, t) ==
    /\ t = "double"
    /\ pr \in {"Positive", "NonNegative"}
    /\ op \in {"plus", "multiplies"}

\* lhs.get() op rhs.get(), computed in T without a check: exact in double,
\* and any value of the type after a signed overflow in int.
PlainRaw(op, t, a, b) ==
    LET exact == CASE op = "plus" -> a + b
                   [] op = "minus" -> a - b
                   [] op = "multiplies" -> a * b
    IN  IF t = "double" \/ exact \in TRange(t) THEN {exact} ELSE TRange(t)

\* What operator+, operator- and operator* return for the raw result raw.
PlainResult(op, t, pr, raw) ==
    IF op # "minus" /\ preserves(pr, op, t)
    THEN [kind |-> "refined", v |-> raw, pred |-> pr]
    ELSE [kind |-> "plain", v |-> raw, pred |-> "none"]

PlainCall(op, t, pr, a, b) ==
    /\ arith.pc = "idle"
    /\ Holds(pr, a) /\ Holds(pr, b)
    /\ \E raw \in PlainRaw(op, t, a, b) :
          arith' = [pc |-> "plain", op |-> op, T |-> t, pred |-> pr,
                    a |-> a, b |-> b, res |-> PlainResult(op, t, pr, raw)]
    /\ UNCHANGED <<h, last, idx, snaps, gidx, readers>>

operator_plus(t, pr, a, b) == PlainCall("plus", t, pr, a, b)

operator_minus(t, pr, a, b) == PlainCall("minus", t, pr, a, b)

operator_multiplies(t, pr, a, b) == PlainCall("multiplies", t, pr, a, b)

PlainReturn ==
    /\ arith.pc = "plain"
    /\ arith' = NoArith
    /\ UNCHANGED <<h, last, idx, snaps, gidx, readers>>

PlainNext ==
    \/ /\ arith.pc = "idle"
       /\ \E t \in PlainTypes, pr \in NamedPreds :
              \E a \in PlainValues(t), b \in PlainValues(t) :
                  operator_plus(t, pr, a, b)
    \/ /\ arith.pc = "idle"
       /\ \E t \in PlainTypes, pr \in NamedPreds :
              \E a \in PlainValues(t), b \in PlainValues(t) :
                  operator_minus(t, pr, a, b)
    \/ /\ arith.pc = "idle"
       /\ \E t \in PlainTypes, pr \in NamedPreds :
              \E a \in PlainValues(t), b \in PlainValues(t) :
                  operator_multiplies(t, pr, a, b)
    \/ PlainReturn

PlainSpec == Init /\ [][PlainNext]_vars

\* C26: for two operands wrapped under the same non-interval predicate,
\* + and * return the wrapped result directly when preservation of the
\* predicate is provable (floating-point Positive / NonNegative), and
\* otherwise (integer Positive) an optional that holds the wrapped result
\* when the raw result satisfies the predicate and is absent when not.
C26_WrappedOrOptional ==
    (arith.pc = "plain" /\ arith.op \in {"plus", "multiplies"})
        => IF arith.T = "double"
           THEN /\ arith.res.kind = "refined"
                /\ arith.res.pred = arith.pred
           ELSE /\ arith.res.kind \in {"some", "nullopt"}
                /\ arith.res.kind = "some"
                      <=> Holds(arith.pred, arith.res.v)

(***************************************************************************)
(* Declarations of interval predicates (specification DeclSpec): the       *)
(* program names Interval<Lo, Hi> or SizeInterval<Lo, Hi>, the compiler    *)
(* instantiates the class template, and a wrapper is built under the       *)
(* predicate.                                                              *)
(***************************************************************************)

IntervalTemplates == {"Interval", "SizeInterval"}

\* Instantiation of the class template: SizeInterval carries
\* static_assert(Lo <= Hi), Interval has no assertion in its body.
instantiates(tpl, lo, hi) == tpl = "SizeInterval" => lo <= hi

Declare(tpl, lo, hi) ==
    /\ arith.pc = "idle"
    /\ arith' = [pc |-> "declared", tpl |-> tpl, lo |-> lo, hi |-> hi,
                 accepted |-> instantiates(tpl, lo, hi)]
    /\ UNCHANGED <<h, last, idx, snaps, gidx, readers>>

\* Refined<std::size_t, Interval<Lo, Hi>{}>(v, runtime_check) or
\* (v, assume_valid) under the declared Interval.
WrapDeclared(v) ==
    /\ arith.pc = "declared" /\ arith.accepted /\ arith.tpl = "Interval"
    /\ \/ ConstructIndex([lo |-> arith.lo, hi |-> arith.hi], v)
       \/ ConstructIndexTrusted([lo |-> arith.lo, hi |-> arith.hi], v)

\* RefinedContainer<std::vector, SizeInterval<Lo, Hi>{}>(c, runtime_check)
WrapDeclaredSize(c) ==
    /\ arith.pc = "declared" /\ arith.accepted
    /\ arith.tpl = "SizeInterval"
    /\ ConstructChecked("target", [lo |-> arith.lo, hi |-> arith.hi], c)

\* The translation unit ends; its objects are gone.
DeclReset ==
    /\ arith.pc = "declared"
    /\ arith' = NoArith
    /\ h' = Unwound
    /\ idx' = NoIdx
    /\ UNCHANGED <<last, snaps, gidx, readers>>

DeclNext ==
    \/ /\ arith.pc = "idle"
       /\ \E tpl \in IntervalTemplates, lo \in 0..SizeMax, hi \in 0..SizeMax :
              Declare(tpl, lo, hi)
    \/ \E v \in 0..SizeMax : WrapDeclared(v)
    \/ \E c \in TargetInputs : WrapDeclaredSize(c)
    \/ DeclReset

DeclSpec == Init /\ [][DeclNext]_vars

\* C27: no interval predicate with Lo > Hi can be formed: a declaration of
\* a numeric Interval<Lo, Hi> or of a SizeInterval<Lo, Hi> whose lower
\* bound exceeds its upper bound is rejected, so no wrapper exists under
\* such a predicate.
C27_NoInvertedInterval ==
    /\ (arith.pc = "declared" /\ arith.accepted) => arith.lo <= arith.hi
    /\ idx.st = "live" => idx.lo <= idx.hi
    /\ h["target"].st = "live" => h["target"].lo <= h["target"].hi

(***************************************************************************)
(* abs and square on integers (specification AbsSpec), called on a         *)
(* wrapper: abs(const Refined<T, Pred>&) and square(const Refined<T,       *)
(* Pred>&) pass refined.get() to the overloads for T.                      *)
(***************************************************************************)

SignedTypes == {"int", "long"}

\* The outcomes of -value in T: the negated value when representable, the
\* wrapped value in an unsigned type, and after a signed overflow, which
\* is undefined, any value of the type or a trap (-ftrapv, sanitizers).
Negated(t, x) ==
    IF -x \in TRange(t) THEN {Value(-x)}
    ELSE IF t = "unsigned" THEN {Value(Wrap(t, -x))}
    ELSE {Value(y) : y \in TRange(t)} \cup {[trap |-> TRUE]}

NonNegativeOf(x) == [kind |-> "refined", pred |-> "NonNegative", v |-> x]

ErrorOf(what) == [kind |-> "thrown", what |-> what]

\* The process stopped inside the call.
Trapped == [kind |-> "trap"]

\* abs(T value), std::signed_integral<T>
abs_result(t, v) ==
    IF v = TMin(t) THEN {ErrorOf("abs")}
    ELSE IF v < 0
         THEN {IF "trap" \in DOMAIN n THEN Trapped ELSE NonNegativeOf(n.v) :
                  n \in Negated(t, v)}
         ELSE {NonNegativeOf(v)}

\* The guard of square on the value and on abs_val as computed.
square_overflows(t, v, a) ==
    \/ v < Wrap(t, -TMax(t))
    \/ a > TDiv(TMax(t), a)

\* square(T value), std::integral<T>: abs_val is computed first, then the
\* guard, then value * value.
square_result(t, v) ==
    IF v = 0 THEN {NonNegativeOf(0)}
    ELSE LET abs_vals == IF v > 0 THEN {Value(v)} ELSE Negated(t, v)
         IN  {IF "trap" \in DOMAIN a THEN Trapped
              ELSE IF square_overflows(t, v, a.v) THEN ErrorOf("square")
              ELSE NonNegativeOf(v * v) : a \in abs_vals}

AbsDone(op, results) ==
    /\ arith.pc = "lhs"
    /\ \E res \in results :
          arith' = [pc |-> "done", op |-> op, T |-> arith.T, B |-> arith.B,
                    lo |-> arith.lo, hi |-> arith.hi, v |-> arith.v,
                    res |-> res]
    /\ UNCHANGED <<h, last, idx, snaps, gidx, readers>>

abs ==
    /\ arith.pc = "lhs"
    /\ arith.T \in SignedTypes
    /\ AbsDone("abs", abs_result(arith.T, arith.v))

square ==
    /\ arith.pc = "lhs"
    /\ AbsDone("square", square_result(arith.T, arith.v))

AbsNext ==
    \/ /\ arith.pc = "idle"
       /\ \E tb \in TypePairs :
              \E p \in IntervalsOf(tb[2]), v \in TRange(tb[1]) :
                  ConstructLhs(tb[1], tb[2], p, v)
    \/ abs
    \/ square
    \/ ArithReset

AbsSpec == Init /\ [][AbsNext]_vars

\* C28: for every integer v, abs(v) and square(v) either return a
\* NonNegative-wrapped value equal to the exact |v| respectively v * v, or
\* signal an error; abs signals exactly when v is the type's minimum and
\* square exactly when v * v is not representable, so that neither returns
\* a wrapper whose value violates NonNegative.
C28_AbsSquare ==
    /\ (arith.pc = "done" /\ arith.op = "abs")
          => IF arith.v = TMin(arith.T)
             THEN arith.res.kind = "thrown"
             ELSE arith.res = NonNegativeOf(Abs(arith.v))
    /\ (arith.pc = "done" /\ arith.op = "square")
          => IF arith.v * arith.v \in TRange(arith.T)
             THEN arith.res = NonNegativeOf(arith.v * arith.v)
             ELSE arith.res.kind = "thrown"

(***************************************************************************)
(* Well-formedness of the inferred bounds (specification FormSpec): the    *)
(* bound computations of the numeric intervals and of the size intervals,  *)
(* each called on its own.  Interval<Lo, Hi> admits Lo > Hi, so the        *)
(* numeric operands range over every pair of bounds.                       *)
(***************************************************************************)

\* The Interval<Lo, Hi> types with bounds of type b a program can name.
NamedIntervals(b) == [lo : TRange(b), hi : TRange(b)]

\* A direct call of size_interval_shift<Pred, Delta>(), recorded with the
\* numeric bound computations.
SizeShiftCall(p, d) ==
    /\ arith.pc = "idle"
    /\ arith' = [pc |-> "bounds", fn |-> "shift", T |-> "size_t",
                 lo |-> p.lo, hi |-> p.hi, lo2 |-> d, hi2 |-> d,
                 out |-> size_interval_shift(p, d)]
    /\ UNCHANGED <<h, last, idx, snaps, gidx, readers>>

\* The new_pred of append(RefinedContainer&&) for the predicates of the
\* target and of the source.
AppendPredCall(p1, p2) ==
    /\ arith.pc = "idle"
    /\ arith' = [pc |-> "bounds", fn |-> "append", T |-> "size_t",
                 lo |-> p1.lo, hi |-> p1.hi, lo2 |-> p2.lo, hi2 |-> p2.hi,
                 out |-> append_pred(p1, p2)]
    /\ UNCHANGED <<h, last, idx, snaps, gidx, readers>>

FormNext ==
    \/ /\ arith.pc = "idle"
       /\ \E fn \in InferFns, t \in IntTypes :
              \E p1 \in NamedIntervals(t), p2 \in NamedIntervals(t) :
                  InferCall(fn, t, p1, p2)
    \/ /\ arith.pc = "idle"
       /\ \E t \in IntTypes : \E p \in NamedIntervals(t) : NegateCall(t, p)
    \/ /\ arith.pc = "idle"
       /\ \E p \in SizePreds, d \in -VecMax..VecMax : SizeShiftCall(p, d)
    \/ /\ arith.pc = "idle"
       /\ \E p1 \in SizePreds, p2 \in SizePreds : AppendPredCall(p1, p2)
    \/ BoundReturn

FormSpec == Init /\ [][FormNext]_vars

\* Every operand interval of the recorded call has lo <= hi.
OperandsWellFormed ==
    /\ arith.lo <= arith.hi
    /\ arith.fn \in {"add", "sub", "mul", "append"} => arith.lo2 <= arith.hi2

\* C29: bound inference preserves well-formedness: whenever every operand
\* interval has lo <= hi, the interval produced by add_intervals,
\* sub_intervals, mul_intervals, negate_interval, size_interval_shift and
\* container append has lo <= hi, also when bounds saturate.
C29_WellFormed ==
    (arith.pc = "bounds" /\ OperandsWellFormed)
        => arith.out.lo <= arith.out.hi

\* A subtraction of two proper intervals whose lower bound saturates at
\* the type's minimum while its upper bound does not.
C29_Witness ==
    /\ arith.pc = "bounds" /\ arith.fn = "sub"
    /\ arith.lo < arith.hi /\ arith.lo2 < arith.hi2
    /\ arith.lo - arith.hi2 < TMin(arith.T)
    /\ arith.out.lo = TMin(arith.T)
    /\ arith.out.hi = arith.hi - arith.lo2
    /\ arith.out.lo < arith.out.hi

(***************************************************************************)
(* Contents of an appended container (specification Spec).                 *)
(***************************************************************************)

\* C30: append(source) returns a wrapper whose container holds the
\* target's elements followed by the source's elements in order, so that
\* its length is the sum of the two lengths held just before the call, for
\* every pair of handles passed as target and source, the case where both
\* designate the same wrapper included.
C30_AppendContents ==
    [][/\ \A s \in Handles :
            (append_rc("target", s) /\ last'.err = "none")
                => /\ h'["target"].c = h["target"].c \o h[s].c
                   /\ Len(h'["target"].c)
                         = Len(h["target"].c) + Len(h[s].c)
       /\ \A src \in SourceInputs :
            (append_array("target", src) /\ last'.err = "none")
                => h'["target"].c = h["target"].c \o src]_vars

====
